---------------------------- MODULE Spec2Model ----------------------------
(***************************************************************************)
(* Laconia: RDF nodes bound to objects, RDF arcs bound to attributes.      *)
(*                                                                         *)
(* Two factories are modelled, each over its own rdflib graph and, as in   *)
(* ThingFactory's default, with the graph itself as schema store.          *)
(* Every handler of Thing and ResourceSet is one atomic action: the code   *)
(* is single-threaded and synchronous.                                     *)
(***************************************************************************)
EXTENDS Integers, Sequences, FiniteSets, TLC

VARIABLES
    store,   \* store[k]: the triples of factory k's graph (Thing._store)
    bn,      \* number of BNode() identifiers allocated so far
    last,    \* the call made last: its arguments, the Oracle's answer, its result
    last2,   \* the call made before it
    pre,     \* the two graphs as they were when the last call started
    steps    \* number of calls made

vars == <<store, bn, last, last2, pre, steps>>

-----------------------------------------------------------------------------
(* Bounds of the model *)

MaxOps == 2          \* calls per behaviour
MaxBNodes == 6       \* BNode() identifiers available
MaxLen == 3          \* longest native list assigned
RecursionLimit == 6  \* depth at which the interpreter raises RuntimeError

-----------------------------------------------------------------------------
(* rdflib terms.  A term is a URIRef, a BNode or a Literal; equality is      *)
(* structural.  A Literal carries its lexical form and its datatype ("" for  *)
(* none); no caller of _python_to_rdf passes lang, so the tag is always None.*)

URI(x) == [k |-> "uri", v |-> x, n |-> 0, dt |-> ""]
BNode(i) == [k |-> "bnode", v |-> "", n |-> i, dt |-> ""]
Literal(x, d) == [k |-> "lit", v |-> x, n |-> 0, dt |-> d]

RDF_type == URI("rdf:type")
RDF_List == URI("rdf:List")
RDF_Seq == URI("rdf:Seq")
RDF_first == URI("rdf:first")
RDF_rest == URI("rdf:rest")
RDF_nil == URI("rdf:nil")
RDFS_range == URI("rdfs:range")
RDFS_subClassOf == URI("rdfs:subClassOf")
XSD_string == URI("xsd:string")

\* RDF_SEQi % i
RDF_SEQi(i) == [k |-> "uri", v |-> "rdf:_", n |-> i, dt |-> ""]
MAX_CARD == URI("owl:maxCardinality")
CARD == URI("owl:cardinality")
RESTRICTION == URI("owl:Restriction")
FUNC_PROP == URI("owl:FunctionalProperty")
ON_PROP == URI("owl:onProperty")
ONE == Literal("1", "")

\* isinstance(o, (URI, BNode))
IsNode(o) == o.k \in {"uri", "bnode"}
\* isinstance(o, URI)
IsURI(o) == o.k = "uri"

-----------------------------------------------------------------------------
(* The triple store (rdflib.Graph), the external collaborator. *)

Tr(s, p, o) == [s |-> s, p |-> p, o |-> o]

\* store.objects(s, p)
Objects(g, s, p) == {t.o : t \in {u \in g : u.s = s /\ u.p = p}}

\* store.triples((s, None, None))
TriplesOf(g, s) == {t \in g : t.s = s}

\* store.remove((s, p, None))
RemoveAll(g, s, p) == {t \in g : ~(t.s = s /\ t.p = p)}

\* store.remove((s, p, o))
RemoveOne(g, s, p, o) == g \ {Tr(s, p, o)}

-----------------------------------------------------------------------------
(* Native (Python) values.  A str of the model is one character long, so    *)
(* indexing or iterating it yields the string itself once.                  *)

Str(s) == [k |-> "str", v |-> s]
Thing(st, id) == [k |-> "thing", store |-> st, id |-> id]
PyList(items) == [k |-> "list", items |-> items]
PySet(members) == [k |-> "set", members |-> members]
\* the ResourceSet returned by __getattr__
View(st, id, pred) == [k |-> "view", store |-> st, id |-> id, pred |-> pred]
\* a raised exception
Err(x) == [k |-> "err", v |-> x]
\* a class object returned as a value
Class(x) == [k |-> "class", v |-> x]
None == [k |-> "none"]

IsErr(r) == r.k = "err"

\* ThingFactory.__init__: schema_store or self.store
SchemaOf(st) == st


-----------------------------------------------------------------------------
(* Thing._isUniqueObject: the Cardinality Oracle.                          *)

\* line 377: the subject's declared types, read from the data store
SubjTypes(g, id) == Objects(g, id, RDF_type)

\* line 380: the objects of (type, rdfs:subClassOf) in the schema store
Superclasses(sch, type) == Objects(sch, type, RDFS_subClassOf)

\* "True", "False", or "ValueError" when the call raises.  Line 379 unpacks
\* each object of (type, rdfs:subClassOf) as a triple (s, p, o), but objects()
\* yields single terms: the unpack raises ValueError for the first superclass
\* met (a term is one string, never three items), so the restriction test of
\* lines 382-389 is never evaluated.
isUniqueObject(g, sch, id, pred) ==
    IF Tr(pred, RDF_type, FUNC_PROP) \in sch THEN "True"
    ELSE IF \E type \in SubjTypes(g, id) : Superclasses(sch, type) # {}
         THEN "ValueError"
         ELSE "False"

-----------------------------------------------------------------------------
(* Thing._getObjectTypes *)

\* the declared ranges of pred, and the declared types of obj when obj is a
\* URIRef (a native value or a BNode never is)
getObjectTypes(g, sch, pred, obj) ==
    Objects(sch, pred, RDFS_range)
        \cup (IF IsURI(obj) THEN Objects(g, obj, RDF_type) ELSE {})

-----------------------------------------------------------------------------
(* Thing._python_to_literal *)

\* str(obj) for a value handed to Literal(): a str is itself; any other
\* non-string value is rendered by its repr
RECURSIVE Join(_)
Join(items) ==
    IF Len(items) = 0 THEN ""
    ELSE IF Len(items) = 1 THEN "'" \o items[1].v \o "'"
    ELSE "'" \o items[1].v \o "', " \o Join(Tail(items))

Lex(obj) ==
    IF obj.k = "str" THEN obj.v
    ELSE IF obj.k = "list" THEN "[" \o Join(obj.items) \o "]"
    ELSE "set([...])"

\* the first of obj_types decides the datatype; there is none when it is empty
python_to_literal(obj, obj_types) ==
    IF obj_types = {} THEN Literal(Lex(obj), "")
    ELSE Literal(Lex(obj), (CHOOSE ty \in obj_types : TRUE).v)

\* Literal.toPython(): a plain or xsd:string literal is its string; a literal
\* of a datatype rdflib cannot decode is returned as it is
toPython(lit) ==
    IF lit.dt \in {"", XSD_string.v} THEN Str(lit.v)
    ELSE [k |-> "literal", term |-> lit]

-----------------------------------------------------------------------------
(* Thing.copyTo *)

\* An outcome is the target graph, the exception raised ("" for none) and a
\* record of the calls made: the ids copyTo was called on, and whether it was
\* called on an id a second time.  store.triples() yields the subject's
\* triples in an unspecified order, so every order is an outcome.  There is
\* no visited set: a node reached again is copied again, and a cycle
\* recurses until the interpreter's recursion limit.
NoCalls == [ids |-> {}, again |-> FALSE]
Visit(calls, id) == [ids |-> calls.ids \cup {id}, again |-> calls.again \/ id \in calls.ids]

RECURSIVE copyTo(_, _, _, _, _)
RECURSIVE copyLoop(_, _, _, _, _)

copyTo(src, id, tgt, calls, depth) ==
    IF depth > RecursionLimit
    THEN {[g |-> tgt, err |-> "RuntimeError", calls |-> calls]}
    ELSE copyLoop(src, TriplesOf(src, id), tgt, Visit(calls, id), depth)

copyLoop(src, todo, tgt, calls, depth) ==
    IF todo = {} THEN {[g |-> tgt, err |-> "", calls |-> calls]}
    ELSE UNION {
           LET g1 == tgt \cup {t}
               sub == IF IsNode(t.o)
                      THEN copyTo(src, t.o, g1, calls, depth + 1)
                      ELSE {[g |-> g1, err |-> "", calls |-> calls]}
           IN  UNION { IF r.err = ""
                       THEN copyLoop(src, todo \ {t}, r.g, r.calls, depth)
                       ELSE {r} : r \in sub }
           : t \in todo }

-----------------------------------------------------------------------------
(* Thing._python_to_rdf and Thing._pythonToList: native value to term.       *)
(* Both write to the store of the entity they are called on.  An outcome is  *)
(* that store afterwards, the BNode counter, the term, the exception raised  *)
(* ("" for none) and the record of the copyTo calls made.                     *)

Out(g, n, term, err, calls) ==
    [g |-> g, bn |-> n, term |-> term, err |-> err, calls |-> calls]

\* members[0] and len(members) are defined for a list and a str only
Indexable(obj) == obj.k \in {"list", "str"}
\* the items that indexing a list or a str yields
Items(obj) == IF obj.k = "list" THEN obj.items ELSE <<obj>>

\* every order in which iterating a set can yield its members
RECURSIVE Orders(_)
Orders(S) ==
    IF S = {} THEN {<<>>}
    ELSE UNION {{<<x>> \o rest : rest \in Orders(S \ {x})} : x \in S}

\* the sequences that "for item in obj" can produce; {} when obj is not iterable
Iterations(obj) ==
    IF obj.k = "list" THEN {obj.items}
    ELSE IF obj.k = "str" THEN {<<obj>>}
    ELSE IF obj.k = "set" THEN Orders(obj.members)
    ELSE {}

RECURSIVE python_to_rdf(_, _, _, _, _)
RECURSIVE pythonToList(_, _, _, _, _)
RECURSIVE seqLoop(_, _, _, _, _, _)

\* S: both graphs; st: the graph of the entity converting
python_to_rdf(S, st, n, pred, obj) ==
    LET obj_types == getObjectTypes(S[st], S[SchemaOf(st)], pred, obj)
        blank == BNode(n + 1)
    IN  IF RDF_List \in obj_types
        THEN { Out(r.g, r.bn, blank, r.err, r.calls) :
                 r \in pythonToList(S, st, n + 1, blank, obj) }
        ELSE IF RDF_Seq \in obj_types
        THEN IF Iterations(obj) = {}
             THEN {Out(S[st], n + 1, None, "TypeError", NoCalls)}
             ELSE UNION { { Out(r.g, r.bn, blank, r.err, r.calls) :
                              r \in seqLoop(S, st, n + 1, blank, items, 1) }
                          : items \in Iterations(obj) }
        ELSE IF obj.k = "thing"
        THEN IF obj.store # st
             THEN { Out(c.g, n, obj.id, c.err, c.calls) :
                      c \in copyTo(S[obj.store], obj.id, S[st], NoCalls, 1) }
             ELSE {Out(S[st], n, obj.id, "", NoCalls)}
        ELSE {Out(S[st], n, python_to_literal(obj, obj_types), "", NoCalls)}

pythonToList(S, st, n, subj, members) ==
    IF ~Indexable(members) THEN {Out(S[st], n, None, "TypeError", NoCalls)}
    ELSE IF Len(Items(members)) = 0 THEN {Out(S[st], n, None, "IndexError", NoCalls)}
    ELSE UNION {
           IF f.err # "" THEN {f}
           ELSE LET g1 == f.g \cup {Tr(subj, RDF_first, f.term)}
                    blank == BNode(f.bn + 1)
                IN  IF Len(Items(members)) > 1
                    THEN pythonToList(
                           [S EXCEPT ![st] = g1 \cup {Tr(subj, RDF_rest, blank)}],
                           st, f.bn + 1, blank, PyList(Tail(Items(members))))
                    ELSE {Out(g1 \cup {Tr(subj, RDF_rest, RDF_nil)},
                              f.bn, None, "", NoCalls)}
           : f \in python_to_rdf(S, st, n, RDF_first, Items(members)[1]) }

\* lines 257-261: the items from the i-th on, under the counters _i, _i+1, ...
seqLoop(S, st, n, blank, items, i) ==
    IF Len(items) = 0 THEN {Out(S[st], n, None, "", NoCalls)}
    ELSE UNION {
           IF f.err # "" THEN {f}
           ELSE seqLoop([S EXCEPT ![st] = f.g \cup {Tr(blank, RDF_SEQi(i), f.term)}],
                        st, f.bn, blank, Tail(items), i + 1)
           : f \in python_to_rdf(S, st, n, RDF_SEQi(i), items[1]) }

-----------------------------------------------------------------------------
(* Thing._rdf_to_python and Thing._listToPython: term to native value.       *)
(* objects(...).next() takes an unspecified one of the matches, so the       *)
(* result is a set of possible values (or raised exceptions).                *)

RECURSIVE rdf_to_python(_, _, _, _, _, _)
RECURSIVE listToPython(_, _, _, _, _)
RECURSIVE seqToPython(_, _, _, _, _, _)

rdf_to_python(g, sch, st, pred, obj, depth) ==
    LET obj_types == getObjectTypes(g, sch, pred, obj)
    IN  IF depth > RecursionLimit THEN {Err("RuntimeError")}
        ELSE IF obj.k = "lit" THEN {toPython(obj)}
        ELSE IF RDF_List \in obj_types THEN listToPython(g, sch, st, obj, depth + 1)
        ELSE IF RDF_Seq \in obj_types THEN seqToPython(g, sch, st, obj, 1, depth)
        ELSE {Thing(st, obj)}

\* Concat with the operands of + swapped
ConcatSwapped(x, rest) ==
    IF IsErr(x) THEN x
    ELSE IF IsErr(rest) THEN rest
    ELSE IF rest.k = "list" THEN PyList(rest.items \o <<x>>)
    ELSE Err("TypeError")

\* line 300: [first] + rest; rest is a list, or the ValueError class that
\* line 299 returns (not raises), which a list cannot be added to
Concat(x, rest) ==
    IF IsErr(x) THEN x
    ELSE IF IsErr(rest) THEN rest
    ELSE IF rest.k = "list" THEN PyList(<<x>> \o rest.items)
    ELSE Err("TypeError")

listToPython(g, sch, st, subj, depth) ==
    IF depth > RecursionLimit THEN {Err("RuntimeError")}
    ELSE IF Objects(g, subj, RDF_first) = {} THEN {PyList(<<>>)}
    ELSE IF Objects(g, subj, RDF_rest) = {} THEN {Class("ValueError")}
    ELSE UNION { UNION { { Concat(x, l) :
                             l \in IF IsErr(x) THEN {x}
                                   ELSE listToPython(g, sch, st, rest, depth + 1) }
                         : x \in rdf_to_python(g, sch, st, RDF_first, first, depth + 1) }
                 : first \in Objects(g, subj, RDF_first),
                   rest \in Objects(g, subj, RDF_rest) }

\* lines 222-230: the items under the counters _i, _i+1, ... until one is unmatched
seqToPython(g, sch, st, obj, i, depth) ==
    IF Objects(g, obj, RDF_SEQi(i)) = {} THEN {PyList(<<>>)}
    ELSE UNION { UNION { { Concat(x, l) :
                             l \in IF IsErr(x) THEN {x}
                                   ELSE seqToPython(g, sch, st, obj, i + 1, depth) }
                         : x \in rdf_to_python(g, sch, st, RDF_SEQi(i), item, depth + 1) }
                 : item \in Objects(g, obj, RDF_SEQi(i)) }

-----------------------------------------------------------------------------
(* The handlers of Thing and ResourceSet.  Each yields the set of its possible *)
(* outcomes: both graphs afterwards, the BNode counter, what the Oracle        *)
(* answered, the value returned or the exception raised, and the record of the *)
(* copyTo calls made.                                                          *)

Res(S, n, oracle, res, calls) ==
    [S |-> S, bn |-> n, oracle |-> oracle, res |-> res, calls |-> calls]

Oracle(S, st, id, pred) == isUniqueObject(S[st], S[SchemaOf(st)], id, pred)

\* ResourceSet.add: convert, then store the triple
add(S, n, st, id, pred, obj) ==
    { IF r.err # ""
      THEN Res([S EXCEPT ![st] = r.g], r.bn, "False", Err(r.err), r.calls)
      ELSE Res([S EXCEPT ![st] = r.g \cup {Tr(id, pred, r.term)}],
               r.bn, "False", None, r.calls)
      : r \in python_to_rdf(S, st, n, pred, obj) }

\* ResourceSet.__init__ with an iterable: add its members one after another
RECURSIVE addEach(_, _, _, _, _, _)
addEach(S, n, st, id, pred, items) ==
    IF Len(items) = 0 THEN {Res(S, n, "False", None, NoCalls)}
    ELSE UNION { IF IsErr(r.res) THEN {r}
                 ELSE addEach(r.S, r.bn, st, id, pred, Tail(items))
                 : r \in add(S, n, st, id, pred, items[1]) }

\* Thing.__setattr__
setattr(S, n, st, id, pred, obj) ==
    LET unique == Oracle(S, st, id, pred)
        S0 == [S EXCEPT ![st] = RemoveAll(S[st], id, pred)]
    IN  IF unique = "ValueError" THEN {Res(S, n, unique, Err("ValueError"), NoCalls)}
        ELSE IF unique = "True"
        THEN { IF r.err # ""
               THEN Res([S EXCEPT ![st] = r.g], r.bn, unique, Err(r.err), r.calls)
               ELSE Res([S EXCEPT ![st] = r.g \cup {Tr(id, pred, r.term)}],
                        r.bn, unique, None, r.calls)
               : r \in python_to_rdf(S0, st, n, pred, obj) }
        ELSE IF obj.k = "set"
        THEN UNION { addEach(S, n, st, id, pred, items) : items \in Orders(obj.members) }
        ELSE {Res(S, n, unique, Err("TypeError"), NoCalls)}

\* getattr answering with an empty view where line 164 raises AttributeError
getattrNeverMissing(S, st, id, pred) ==
    LET unique == Oracle(S, st, id, pred)
    IN  IF unique = "ValueError" THEN {Err("ValueError")}
        ELSE IF unique = "True" /\ Objects(S[st], id, pred) # {}
        THEN UNION { rdf_to_python(S[st], S[SchemaOf(st)], st, pred, obj, 1)
                     : obj \in Objects(S[st], id, pred) }
        ELSE {View(st, id, pred)}

\* Thing.__getattr__: the possible results
getattr(S, st, id, pred) ==
    LET unique == Oracle(S, st, id, pred)
    IN  IF unique = "ValueError" THEN {Err("ValueError")}
        ELSE IF unique = "True"
        THEN IF Objects(S[st], id, pred) = {} THEN {Err("AttributeError")}
             ELSE UNION { rdf_to_python(S[st], S[SchemaOf(st)], st, pred, obj, 1)
                          : obj \in Objects(S[st], id, pred) }
        ELSE {View(st, id, pred)}

\* delattr with the predicate of the pattern left open: (self._id, None, None)
delattrAnyPredicate(S, st, id, pred) ==
    [S EXCEPT ![st] = {t \in S[st] : t.s # id}]

\* Thing.__delattr__
delattr(S, st, id, pred) == [S EXCEPT ![st] = RemoveAll(S[st], id, pred)]

\* compareTerm building its literal without the declared range's datatype
compareTermUntyped(S, st, pred, obj) ==
    IF obj.k = "thing" THEN obj.id ELSE python_to_literal(obj, {})

\* the term ResourceSet.__contains__ and discard compare with
compareTerm(S, st, pred, obj) ==
    IF obj.k = "thing" THEN obj.id
    ELSE python_to_literal(obj, getObjectTypes(S[st], S[SchemaOf(st)], pred, obj))

\* ResourceSet.__contains__
contains(S, st, id, pred, obj) == Tr(id, pred, compareTerm(S, st, pred, obj)) \in S[st]

\* ResourceSet.__len__
len(S, st, id, pred) == Cardinality(Objects(S[st], id, pred))

\* Thing.properties: one wrapper per triple of the subject, in the order
\* store.triples() yields them (unspecified, so every order is a result)
properties(S, st, id) ==
    { PyList([i \in 1..Len(ts) |-> Thing(st, ts[i].p)]) :
        ts \in Orders(TriplesOf(S[st], id)) }

\* ResourceSet.discard
discard(S, st, id, pred, obj) ==
    [S EXCEPT ![st] = RemoveOne(S[st], id, pred, compareTerm(S, st, pred, obj))]

\* ResourceSet.remove: both graphs afterwards and the result
remove(S, st, id, pred, obj) ==
    IF ~contains(S, st, id, pred, obj)
    THEN [S |-> S, res |-> Err("KeyError")]
    ELSE [S |-> discard(S, st, id, pred, obj), res |-> None]

\* ResourceSet.clear.  The subject of the pattern at line 494 is self._subject,
\* the Thing, where every other method passes self._subject._id.  A Thing
\* hashes as its _id and its __eq__ accepts an identifier, while an
\* identifier's own __eq__ accepts no Thing: whether the store matches the
\* Thing against the subjects it holds depends on which operand the store
\* compares from.  Both outcomes are possible graphs afterwards.
clear(S, st, id, pred) ==
    { S, [S EXCEPT ![st] = RemoveAll(S[st], id, pred)] }

\* what calling a ResourceSet method on the result of __getattr__ raises when
\* that result is no ResourceSet: an exception of __getattr__ itself, the
\* AttributeError of a str or list, or, on a Thing, the ValueError of
\* _AttrToURI splitting a name without an underscore
NotAView(r) ==
    IF IsErr(r) THEN r
    ELSE IF r.k = "thing" THEN Err("ValueError")
    ELSE Err("AttributeError")

-----------------------------------------------------------------------------
(* The calls a program makes, as actions.  e is the Thing called on (its       *)
(* store and its _id), pred the predicate _AttrToURI resolves the attribute    *)
(* name to, v the native value passed.                                         *)

Bool(b) == [k |-> "bool", v |-> b]

Call(op, e, pred, v, out) ==
    /\ steps < MaxOps
    /\ out.bn <= MaxBNodes
    /\ store' = out.S
    /\ bn' = out.bn
    /\ last' = [op |-> op, st |-> e.store, id |-> e.id, pred |-> pred, val |-> v,
                oracle |-> out.oracle, res |-> out.res, calls |-> out.calls]
    /\ last2' = last
    /\ pre' = store
    /\ steps' = steps + 1

\* e.attr = v
SetAttr(e, pred, v) ==
    \E out \in setattr(store, bn, e.store, e.id, pred, v) :
        Call("set", e, pred, v, out)

\* e.attr
GetAttr(e, pred) ==
    \E r \in getattr(store, e.store, e.id, pred) :
        Call("get", e, pred, None,
             Res(store, bn, Oracle(store, e.store, e.id, pred), r, NoCalls))

\* del e.attr
DelAttr(e, pred) ==
    Call("del", e, pred, None,
         Res(delattr(store, e.store, e.id, pred), bn, "n/a", None, NoCalls))

\* e.attr.add(v)
Add(e, pred, v) ==
    \E r \in getattr(store, e.store, e.id, pred) :
        IF r.k = "view"
        THEN \E out \in add(store, bn, e.store, e.id, pred, v) :
                 Call("add", e, pred, v, out)
        ELSE Call("add", e, pred, v,
                  Res(store, bn, Oracle(store, e.store, e.id, pred), NotAView(r), NoCalls))

\* v in e.attr, when e.attr is no ResourceSet: a substring test on a str, a
\* membership test on a list, a TypeError on a Thing
InNative(v, r) ==
    IF IsErr(r) THEN r
    ELSE IF r.k = "str" THEN IF v.k = "str" THEN Bool(v = r) ELSE Err("TypeError")
    ELSE IF r.k = "list" THEN Bool(\E i \in 1..Len(r.items) : r.items[i] = v)
    ELSE Err("TypeError")

\* v in e.attr
Contains(e, pred, v) ==
    \E r \in getattr(store, e.store, e.id, pred) :
        Call("contains", e, pred, v,
             Res(store, bn, Oracle(store, e.store, e.id, pred),
                 IF r.k = "view" THEN Bool(contains(store, e.store, e.id, pred, v))
                 ELSE InNative(v, r),
                 NoCalls))

\* e.properties()
Properties(e) ==
    \E r \in properties(store, e.store, e.id) :
        Call("properties", e, None, None, Res(store, bn, "n/a", r, NoCalls))

\* the call op, with outcome S and result res, made on the result r of e.attr
OnView(op, e, pred, v, r, S, res) ==
    Call(op, e, pred, v,
         IF r.k = "view"
         THEN Res(S, bn, "False", res, NoCalls)
         ELSE Res(store, bn, Oracle(store, e.store, e.id, pred), NotAView(r), NoCalls))

\* e.attr.discard(v)
Discard(e, pred, v) ==
    \E r \in getattr(store, e.store, e.id, pred) :
        OnView("discard", e, pred, v, r, discard(store, e.store, e.id, pred, v), None)

\* e.attr.remove(v)
Remove(e, pred, v) ==
    \E r \in getattr(store, e.store, e.id, pred) :
        LET out == remove(store, e.store, e.id, pred, v)
        IN  OnView("remove", e, pred, v, r, out.S, out.res)

\* e.attr.clear()
Clear(e, pred) ==
    \E r \in getattr(store, e.store, e.id, pred) :
        \E S \in clear(store, e.store, e.id, pred) :
            OnView("clear", e, pred, None, r, S, None)

NoCall == [op |-> "none"]

\* the state after the factories are built over the two graphs g1 and g2
Start(g1, g2) ==
    /\ store = <<g1, g2>>
    /\ bn = 0
    /\ last = NoCall
    /\ last2 = NoCall
    /\ pre = <<g1, g2>>
    /\ steps = 0

-----------------------------------------------------------------------------
(* The universe of the checks: names, values and graphs. *)

EX_me == URI("ex:me")
EX_p == URI("ex:p")
EX_q == URI("ex:q")
EX_b == URI("ex:b")
EX_c == URI("ex:c")
EX_Class == URI("ex:Class")
EX_Restr == URI("ex:Restr")

\* factory("ex_me")
Me == Thing(1, EX_me)

Functional == {Tr(EX_p, RDF_type, FUNC_PROP)}
RangeList == {Tr(EX_p, RDFS_range, RDF_List)}
RangeSeq == {Tr(EX_p, RDFS_range, RDF_Seq)}
RangeStr == {Tr(EX_p, RDFS_range, XSD_string)}
Typed == {Tr(EX_me, RDF_type, EX_Class)}
TwoValues == {Tr(EX_me, EX_p, Literal("a", "")), Tr(EX_me, EX_p, Literal("c", ""))}
\* triples that no call of the checks is aimed at
Other == {Tr(EX_me, EX_q, Literal("q", "")), Tr(EX_b, EX_p, Literal("a", ""))}

-----------------------------------------------------------------------------
(* Spec: attribute reads and writes on ex:me under ex:p, over graphs loaded   *)
(* with a schema for ex:p (functional or not, with or without a range), with  *)
(* or without values already stored, and a second graph that is empty or      *)
(* holds facts about ex:b.                                                    *)

\* ex:b points back at ex:me, which has a value under ex:p in the second graph
Clash == {Tr(EX_b, EX_q, EX_me), Tr(EX_me, EX_p, Literal("d", ""))}

Graphs1 ==
    { Other \cup f \cup r \cup v :
        f \in {{}, Functional},
        r \in {{}, RangeList, RangeSeq, RangeStr},
        v \in {{}, TwoValues} }
    \cup { Other \cup Typed \cup f : f \in {{}, Functional} }

Graphs2 == {{}, Clash}

Values ==
    { Str("a"), Str("b"), Thing(1, EX_b), Thing(2, EX_b),
      PyList(<<Str("a"), Str("b")>>), PySet({Str("a"), Str("b")}) }

Init == \E g1 \in Graphs1, g2 \in Graphs2 : Start(g1, g2)

Set == \E v \in Values : SetAttr(Me, EX_p, v)
Get == GetAttr(Me, EX_p)
Del == DelAttr(Me, EX_p)
ViewAdd == \E v \in Values : Add(Me, EX_p, v)
ViewContains == \E v \in Values : Contains(Me, EX_p, v)

Next == Set \/ Get \/ Del \/ ViewAdd \/ ViewContains

Spec == Init /\ [][Next]_vars

-----------------------------------------------------------------------------
(* Claims checked under Spec *)

\* the last call was op on ex:me under ex:p
LastIs(op) == last.op = op /\ last.st = 1 /\ last.id = EX_me /\ last.pred = EX_p

\* the triples of g that a call on (id, pred) is not aimed at
Rest(g, id, pred) == {t \in g : ~(t.s = id /\ t.p = pred)}

\* C2: for a predicate the Oracle judges single-valued, after set(name, v1)
\* followed by set(name, v2) the store holds exactly one triple
\* (subject, predicate, *), whose object is the term converted from v2: the
\* entity's identifier, a fresh blank node for an encoded list or sequence,
\* else the literal of v2.
C2_OverwriteLeavesOne ==
    (/\ LastIs("set") /\ last.oracle = "True" /\ last.res = None
     /\ last2.op = "set" /\ last2.oracle = "True" /\ last2.res = None)
    => /\ Cardinality(Objects(store[1], EX_me, EX_p)) = 1
       /\ \A o \in Objects(store[1], EX_me, EX_p) :
            IF last.val.k = "thing" THEN o = last.val.id
            ELSE IF o.k = "bnode" THEN Tr(EX_me, EX_p, o) \notin pre[1]
            ELSE o = compareTerm(pre, 1, EX_p, last.val)

\* C7: delete(name) removes every triple (subject, predicate, *), whatever
\* their number, leaves every other triple of both stores as it was, raises
\* nothing, and afterwards contains(v) is false for every v.
C7_DeleteRemovesAll ==
    LastIs("del")
    => /\ Objects(store[1], EX_me, EX_p) = {}
       /\ Rest(store[1], EX_me, EX_p) = Rest(pre[1], EX_me, EX_p)
       /\ store[2] = pre[2]
       /\ last.res = None
       /\ \A v \in Values : ~contains(store, 1, EX_me, EX_p, v)

\* a delete that removed two values and left other triples in place
C7_Witness ==
    /\ LastIs("del")
    /\ Cardinality(Objects(pre[1], EX_me, EX_p)) >= 2
    /\ Rest(store[1], EX_me, EX_p) # {}

\* C8: get(name) with no triple stored raises AttributeError when the Oracle
\* judges the predicate single-valued and returns a view of size 0 when it
\* judges it multi-valued; neither store is changed by the read.
C8_GetOfMissing ==
    (LastIs("get") /\ Objects(pre[1], EX_me, EX_p) = {})
    => /\ last.oracle = "True" => last.res = Err("AttributeError")
       /\ last.oracle = "False" =>
            /\ last.res = View(1, EX_me, EX_p)
            /\ len(store, 1, EX_me, EX_p) = 0
       /\ store = pre

\* a read of a single-valued attribute that was never written
C8_Witness ==
    /\ LastIs("get") /\ last.oracle = "True"
    /\ Objects(pre[1], EX_me, EX_p) = {}
    /\ last.res = Err("AttributeError")

\* a read of a multi-valued attribute that was never written
C8_WitnessView ==
    /\ LastIs("get") /\ last.oracle = "False"
    /\ Objects(pre[1], EX_me, EX_p) = {}
    /\ last.res.k = "view"

\* the term o stands for the native value v
Denotes(o, v) ==
    IF v.k = "thing" THEN o = v.id ELSE o.k = "lit" /\ toPython(o) = v

\* C9: set(name, S) with a set S on a multi-valued predicate replaces the
\* property: a value stored under (subject, predicate) before the assignment
\* that is not a member of S is no longer present, and the triples under
\* other predicates of the subject are unchanged.
C9_SetReplaces ==
    (LastIs("set") /\ last.oracle = "False" /\ last.val.k = "set" /\ last.res = None)
    => /\ \A o \in Objects(pre[1], EX_me, EX_p) :
            o \in Objects(store[1], EX_me, EX_p)
            => \E v \in last.val.members : Denotes(o, v)
       /\ \A t \in TriplesOf(pre[1], EX_me) \cup TriplesOf(store[1], EX_me) :
            t.p # EX_p => (t \in pre[1] <=> t \in store[1])

\* the values add accepts according to the claim: a scalar or an entity
Accepted(v) == v.k \in {"str", "thing"}

C10_WitnessTyped ==
    /\ LastIs("add") /\ last.res = None
    /\ last.val = Str("a")
    /\ Tr(EX_me, EX_p, Literal("a", XSD_string.v)) \in store[1]

-----------------------------------------------------------------------------
(* SpecEmpty: both graphs start empty and change only through the calls.     *)
(* The calls are made on ex:me and on the predicate ex:p itself, as in       *)
(* factory("ex_p").rdf_type.add(factory("owl_FunctionalProperty")).          *)

EmptyThings == {Me, Thing(1, EX_p)}
EmptyPreds == {EX_p, RDF_type}
EmptyValues == {Str("a"), Str("b"), Thing(1, FUNC_PROP), PySet({Str("a"), Str("b")})}

InitEmpty == Start({}, {})

EmptySet == \E e \in EmptyThings, pred \in EmptyPreds, v \in EmptyValues : SetAttr(e, pred, v)
EmptyAdd == \E e \in EmptyThings, pred \in EmptyPreds, v \in EmptyValues : Add(e, pred, v)
EmptyDel == \E e \in EmptyThings, pred \in EmptyPreds : DelAttr(e, pred)

NextEmpty == EmptySet \/ EmptyAdd \/ EmptyDel

SpecEmpty == InitEmpty /\ [][NextEmpty]_vars

\* C1: starting from empty stores and changed only by the core's own calls,
\* every (subject, predicate) pair the Oracle judges single-valued has at most
\* one matching triple in the data store, with the schema store being the
\* data store itself.
C1_SingleValuedHasOne ==
    \A t \in store[1] :
        Oracle(store, 1, t.s, t.p) = "True"
        => Cardinality(Objects(store[1], t.s, t.p)) <= 1

-----------------------------------------------------------------------------
(* SpecCopy: an entity of the second graph is added to a view of ex:me.  The *)
(* second graph is any graph over ex:b, ex:c and a blank node of its own,    *)
(* cyclic ones included.                                                     *)

\* a blank node of the second graph (not one this run's BNode() hands out)
Blank2 == [k |-> "bnode", v |-> "g2", n |-> 0, dt |-> ""]

CopyUniverse ==
    { Tr(EX_b, EX_q, EX_c), Tr(EX_b, EX_q, Blank2), Tr(Blank2, EX_q, EX_c),
      Tr(EX_c, EX_q, Literal("c", "")), Tr(EX_c, EX_q, EX_b) }

CopyValues == {Thing(2, EX_b), Thing(2, EX_c)}

InitCopy == \E g2 \in SUBSET CopyUniverse : Start(Other, g2)

CopyAdd == \E v \in CopyValues : Add(Me, EX_p, v)
CopyContains == \E v \in CopyValues : Contains(Me, EX_p, v)
CopyDel == DelAttr(Me, EX_p)

NextCopy == CopyAdd \/ CopyContains \/ CopyDel

SpecCopy == InitCopy /\ [][NextCopy]_vars

\* the nodes reachable from id through object positions
RECURSIVE Reach(_, _)
Reach(g, seen) ==
    LET more == {t.o : t \in {u \in g : u.s \in seen /\ IsNode(u.o)}}
    IN  IF more \subseteq seen THEN seen ELSE Reach(g, seen \cup more)

\* the triples whose subject is reachable from id
Subgraph(g, id) == {t \in g : t.s \in Reach(g, {id})}

\* the last call added an entity of the second graph to the view of ex:me
AddedForeign == LastIs("add") /\ last.val.k = "thing" /\ last.val.store = 2

\* C3: adding B of store S2 to a multi-valued view of A in store S1 leaves S1
\* containing the A-p-B triple and every triple of S2 whose subject is B or
\* is reachable from B through object positions; S2 is unchanged.
C3_CrossStoreMerge ==
    AddedForeign
    => /\ Tr(EX_me, EX_p, last.val.id) \in store[1]
       /\ Subgraph(pre[2], last.val.id) \subseteq store[1]
       /\ store[2] = pre[2]

\* C4: copyTo terminates on every finite source store, cyclic ones included:
\* each node is copied at most once within one copy and the copy finishes
\* with all reachable triples in the target store.
C4_CopyTerminates ==
    AddedForeign
    => /\ last.res = None
       /\ ~last.calls.again
       /\ Subgraph(pre[2], last.val.id) \subseteq store[1]

-----------------------------------------------------------------------------
(* SpecOracle: the Oracle is asked about (ex:me, ex:p) over every schema     *)
(* that can be built from a functional declaration and a class restriction.  *)

OracleUniverse ==
    { Tr(EX_p, RDF_type, FUNC_PROP), Tr(EX_me, RDF_type, EX_Class),
      Tr(EX_Class, RDFS_subClassOf, EX_Restr), Tr(EX_Restr, RDF_type, RESTRICTION),
      Tr(EX_Restr, ON_PROP, EX_p), Tr(EX_Restr, MAX_CARD, ONE),
      Tr(EX_Restr, CARD, ONE) }

InitOracle == \E g1 \in SUBSET OracleUniverse : Start(g1, {})

OracleGet == GetAttr(Me, EX_p)
OracleSet == \E v \in {Str("a"), Str("b")} : SetAttr(Me, EX_p, v)
OracleAdd == \E v \in {Str("a"), Str("b")} : Add(Me, EX_p, v)

NextOracle == OracleGet \/ OracleSet \/ OracleAdd

SpecOracle == InitOracle /\ [][NextOracle]_vars

\* what the claim says isSingleValued answers: the predicate is declared
\* functional, or a declared type of the subject has a superclass that is a
\* restriction on the predicate with max-cardinality or cardinality "1"
DeclaredSingle(g, sch, id, pred) ==
    \/ Tr(pred, RDF_type, FUNC_PROP) \in sch
    \/ \E type \in Objects(g, id, RDF_type) :
         \E super \in Objects(sch, type, RDFS_subClassOf) :
            /\ Tr(super, RDF_type, RESTRICTION) \in sch
            /\ Tr(super, ON_PROP, pred) \in sch
            /\ Tr(super, MAX_CARD, ONE) \in sch \/ Tr(super, CARD, ONE) \in sch

\* C5: for every content of the stores isSingleValued answers true exactly
\* when the predicate is declared functional or restricted to cardinality 1
\* through a superclass of a declared type of the subject, false otherwise;
\* it never fails and never modifies a store.
C5_OracleDecides ==
    (last.op \in {"get", "set", "add"})
    => /\ last.oracle = IF DeclaredSingle(pre[1], pre[SchemaOf(1)], last.id, last.pred)
                        THEN "True" ELSE "False"
       /\ last.op = "get" => store = pre

-----------------------------------------------------------------------------
(* SpecList: native lists are assigned to ex:p, declared functional with     *)
(* range rdf:List, and read back.                                            *)

Scalars == {Str("a"), Str("b")}

\* the native lists of 1 to MaxLen scalars
Lists == {PyList(l) : l \in UNION {[1..n -> Scalars] : n \in 1..MaxLen}}

InitList == \E v \in {{}, TwoValues}, t \in {{}, Typed} :
                Start(Other \cup Functional \cup RangeList \cup v \cup t, {})

ListSet == \E v \in Lists : SetAttr(Me, EX_p, v)
ListGet == GetAttr(Me, EX_p)
ListDel == DelAttr(Me, EX_p)

NextList == ListSet \/ ListGet \/ ListDel

SpecList == InitList /\ [][NextList]_vars

\* node heads a chain for items: one blank node per item, absent from the
\* graph old, each with exactly one rdf:first (the item's literal) and one
\* rdf:rest (the next link, or rdf:nil after the last item)
RECURSIVE IsChain(_, _, _, _, _)
IsChain(g, old, node, items, used) ==
    /\ node.k = "bnode"
    /\ node \notin used
    /\ \A t \in old : t.s # node /\ t.o # node
    /\ Objects(g, node, RDF_first) = {Literal(items[1].v, "")}
    /\ IF Len(items) = 1
       THEN Objects(g, node, RDF_rest) = {RDF_nil}
       ELSE \E next \in Objects(g, node, RDF_rest) :
              /\ Objects(g, node, RDF_rest) = {next}
              /\ IsChain(g, old, next, Tail(items), used \cup {node})

\* a list was assigned to the single-valued predicate with range rdf:List
ListAssigned(c) ==
    /\ c.op = "set" /\ c.st = 1 /\ c.id = EX_me /\ c.pred = EX_p
    /\ c.oracle = "True" /\ c.val.k = "list" /\ c.res = None

\* C6: for a single-valued predicate with range rdf:List and a non-empty
\* list L of scalars, set(name, L) followed by get(name) returns L, same
\* length, elements and order; the chain has one fresh blank node per link
\* with first/rest edges and ends at rdf:nil.
C6_ListRoundTrip ==
    /\ (ListAssigned(last) /\ RDF_List \in Objects(pre[SchemaOf(1)], EX_p, RDFS_range))
       => /\ getattr(store, 1, EX_me, EX_p) = {last.val}
          /\ \E head \in Objects(store[1], EX_me, EX_p) :
                IsChain(store[1], pre[1], head, last.val.items, {})
    /\ (LastIs("get") /\ ListAssigned(last2)
        /\ RDF_List \in Objects(pre[SchemaOf(1)], EX_p, RDFS_range))
       => last.res = last2.val

\* a list of three items, one of them repeated, was assigned and read back
C6_Witness ==
    /\ LastIs("get") /\ ListAssigned(last2)
    /\ last2.val = PyList(<<Str("a"), Str("b"), Str("a")>>)
    /\ last.res = last2.val

-----------------------------------------------------------------------------
(* SpecView: the view of ex:me under ex:p is added to, discarded and removed *)
(* from and cleared, and the properties of ex:me are listed, over graphs     *)
(* with no, one or two values stored, as in test_list_all_properties.        *)

OneValue == {Tr(EX_me, EX_p, Literal("a", ""))}

GraphsView ==
    { Other \cup f \cup r \cup v :
        f \in {{}, Functional},
        r \in {{}, RangeStr},
        v \in {{}, OneValue, TwoValues} }

ValuesView == {Str("a"), Str("c"), Thing(1, EX_b)}

InitView == \E g1 \in GraphsView : Start(g1, {})

AddView == \E v \in ValuesView : Add(Me, EX_p, v)
DiscardView == \E v \in ValuesView : Discard(Me, EX_p, v)
RemoveView == \E v \in ValuesView : Remove(Me, EX_p, v)
ClearView == Clear(Me, EX_p)
DelView == DelAttr(Me, EX_p)
PropertiesView == Properties(Me)

NextView ==
    AddView \/ DiscardView \/ RemoveView \/ ClearView \/ DelView \/ PropertiesView

SpecView == InitView /\ [][NextView]_vars

\* the predicates of the triples with id as subject
PredicatesOf(g, id) == {t.p : t \in TriplesOf(g, id)}

\* how many items of the list l equal x
Count(l, x) == Cardinality({i \in 1..Len(l) : l[i] = x})

\* C11: properties() returns exactly one wrapper entity per distinct
\* predicate occurring in a triple with the entity as subject: a predicate
\* with two or more values appears once in the result, not once per triple.
C11_PropertiesDistinct ==
    (last.op = "properties" /\ last.st = 1 /\ last.id = EX_me)
    => /\ last.res.k = "list"
       /\ \A pr \in PredicatesOf(pre[1], EX_me) :
            Count(last.res.items, Thing(1, pr)) = 1
       /\ \A i \in 1..Len(last.res.items) :
            last.res.items[i].id \in PredicatesOf(pre[1], EX_me)

\* C13: clear() on a view removes every triple (subject, predicate, *), so
\* that the view's size is 0 and contains(v) is false for every v, leaves
\* every other triple as it was, and has the effect on the store of
\* delete(name) on the owning entity.
C13_ClearRemovesAll ==
    (LastIs("clear") /\ last.res = None)
    => /\ Objects(store[1], EX_me, EX_p) = {}
       /\ len(store, 1, EX_me, EX_p) = 0
       /\ \A v \in ValuesView : ~contains(store, 1, EX_me, EX_p, v)
       /\ Rest(store[1], EX_me, EX_p) = Rest(pre[1], EX_me, EX_p)
       /\ store = delattr(pre, 1, EX_me, EX_p)

-----------------------------------------------------------------------------
(* SpecChain: ex:p is functional with range rdf:List, and the graph already  *)
(* holds a chain of up to two links under (ex:me, ex:p) with any of its      *)
(* rdf:first and rdf:rest edges missing.  Lists, the empty one included, are *)
(* assigned and the attribute is read.  The second graph holds a cycle.      *)

\* the links of the stored chain (blank nodes the graph was loaded with)
Link1 == [k |-> "bnode", v |-> "l1", n |-> 0, dt |-> ""]
Link2 == [k |-> "bnode", v |-> "l2", n |-> 0, dt |-> ""]

ChainUniverse ==
    { Tr(Link1, RDF_first, Literal("a", "")), Tr(Link1, RDF_rest, Link2),
      Tr(Link2, RDF_first, Literal("b", "")), Tr(Link2, RDF_rest, RDF_nil) }

Cycle == {Tr(EX_b, EX_q, EX_c), Tr(EX_c, EX_q, EX_b)}

ChainValues ==
    { PyList(<<>>), PyList(<<Str("a")>>), PyList(<<Str("a"), Str("b")>>),
      PyList(<<Str("a"), Thing(2, EX_b)>>) }

InitChain ==
    \E g \in SUBSET ChainUniverse :
        Start(Other \cup Functional \cup RangeList \cup {Tr(EX_me, EX_p, Link1)} \cup g,
              Cycle)

ChainSet == \E v \in ChainValues : SetAttr(Me, EX_p, v)
ChainGet == GetAttr(Me, EX_p)
ChainDel == DelAttr(Me, EX_p)

NextChain == ChainSet \/ ChainGet \/ ChainDel

SpecChain == InitChain /\ [][NextChain]_vars

\* the chain starting at node is malformed within fuel links: a node other
\* than rdf:nil lacks its rdf:first edge, or has one and lacks its rdf:rest
RECURSIVE Malformed(_, _, _)
Malformed(g, node, fuel) ==
    /\ node # RDF_nil
    /\ fuel > 0
    /\ \/ Objects(g, node, RDF_first) = {}
       \/ Objects(g, node, RDF_rest) = {}
       \/ \E next \in Objects(g, node, RDF_rest) : Malformed(g, next, fuel - 1)

\* C12: decoding a chain-of-nodes list fails with an error whenever the
\* chain is malformed (a node other than rdf:nil without rdf:first, or with
\* rdf:first and without rdf:rest): the read raises instead of returning a
\* shortened or partial list.
C12_MalformedChainFails ==
    (/\ LastIs("get") /\ last.oracle = "True"
     /\ \E head \in Objects(pre[1], EX_me, EX_p) :
            head.k = "bnode" /\ Malformed(pre[1], head, MaxBNodes + 2))
    => IsErr(last.res)

\* C14: a set(name, value) on a single-valued predicate that fails during
\* the conversion of the value leaves the data store as it was before the
\* call: the value stored before is still there and no partial chain has
\* been added.
C14_FailedSetKeepsStore ==
    (LastIs("set") /\ last.oracle = "True" /\ IsErr(last.res))
    => store = pre

=============================================================================
